---- MODULE Spec2Model ----
(***************************************************************************)
(* A model of AFQ/mask.py: the boolean combiner (_MaskCombiner), the       *)
(* resampling helper (_resample_mask), the mask variants (MaskFile,        *)
(* FullMask, LabelledMaskFile, ThresholdedMaskFile, ScalarMask,            *)
(* ThresholdedScalarMask, CombinedMask) and their find_path / get_mask     *)
(* lifecycle.                                                              *)
(*                                                                         *)
(* An array is a record [shape, dtype, data]: data is the row-major        *)
(* flattening, booleans for dtype "bool" and integers otherwise.  Python's *)
(* None is the array NoneArr (dtype "None"); an optional number or list is *)
(* None (the empty tuple) or Some(v) (the one-element tuple).  A raised    *)
(* exception is the name of its class in the field exc ("none" when the    *)
(* call returned).                                                         *)
(***************************************************************************)
EXTENDS Integers, Sequences, FiniteSets, TLC

VARIABLES obj, found, out, comb, folded, inp, world

vars == <<obj, found, out, comb, folded, inp, world>>

\* ------------------------------------------------------------------ bounds
\* Largest extent of an axis of a modelled volume.
MaxDim == 2
\* Largest voxel value of a modelled source volume (values are 0..MaxVal).
MaxVal == 3
\* Most folds into one combiner, and longest label list.
MaxFolds == 2
\* Largest value the resample service returns, in half units (3 is 1.5).
MaxHalf == 3

\* ------------------------------------------------------------------ arrays
RECURSIVE Prod(_)
Prod(s) == IF s = <<>> THEN 1 ELSE s[1] * Prod(Tail(s))

None == <<>>

Some(v) == <<v>>

NoneArr == [shape |-> <<>>, dtype |-> "None", data |-> <<>>]

IsNone(a) == a.dtype = "None"

\* Shapes of the modelled volumes: one axis, or two with a leading extent 1
\* (same number of voxels as <<n>>, a different shape).
Shapes == {<<n>> : n \in 1..MaxDim} \cup {<<1, n>> : n \in 1..MaxDim}

Idx(a) == 1..Prod(a.shape)

\* np.zeros(shape, dtype=bool)
Zeros(shape) ==
    [shape |-> shape, dtype |-> "bool", data |-> [i \in 1..Prod(shape) |-> FALSE]]

\* np.ones(shape, dtype=bool)
Ones(shape) ==
    [shape |-> shape, dtype |-> "bool", data |-> [i \in 1..Prod(shape) |-> TRUE]]

\* The truth value numpy's logical functions give an element.
Truth(a, i) == IF a.dtype = "bool" THEN a.data[i] ELSE a.data[i] # 0

\* np.logical_or(a, b), for arrays of one shape
LogicalOr(a, b) ==
    [shape |-> a.shape, dtype |-> "bool",
     data |-> [i \in Idx(a) |-> Truth(a, i) \/ Truth(b, i)]]

\* np.logical_and(a, b), for arrays of one shape
LogicalAnd(a, b) ==
    [shape |-> a.shape, dtype |-> "bool",
     data |-> [i \in Idx(a) |-> Truth(a, i) /\ Truth(b, i)]]

\* array == v, array != v, array < v, array > v
CmpEq(a, v) ==
    [shape |-> a.shape, dtype |-> "bool", data |-> [i \in Idx(a) |-> a.data[i] = v]]

CmpNe(a, v) ==
    [shape |-> a.shape, dtype |-> "bool", data |-> [i \in Idx(a) |-> a.data[i] # v]]

CmpLt(a, v) ==
    [shape |-> a.shape, dtype |-> "bool", data |-> [i \in Idx(a) |-> a.data[i] < v]]

CmpGt(a, v) ==
    [shape |-> a.shape, dtype |-> "bool", data |-> [i \in Idx(a) |-> a.data[i] > v]]

BoolArrays(shape) ==
    {[shape |-> shape, dtype |-> "bool", data |-> d] :
        d \in [1..Prod(shape) -> BOOLEAN]}

\* The arrays nib's get_fdata() can give: float64, here with whole values.
FloatArrays(shape) ==
    {[shape |-> shape, dtype |-> "float64", data |-> d] :
        d \in [1..Prod(shape) -> 0..MaxVal]}

\* --------------------------------------------------------- _MaskCombiner
Tags == {"and", "or", "xor"}

NoComb == [combine |-> "None", mask |-> NoneArr]

\* _MaskCombiner.combine_illdefined: raise TypeError
CombineIlldefined(self) == [exc |-> "TypeError", self |-> self]

\* _MaskCombiner.__init__ seeding each operator with the other's identity.
CombinerInitSwapped(shape, combine) ==
    IF combine = "or"
    THEN [exc |-> "none", self |-> [combine |-> combine, mask |-> Ones(shape)]]
    ELSE IF combine = "and"
    THEN [exc |-> "none", self |-> [combine |-> combine, mask |-> Zeros(shape)]]
    ELSE CombineIlldefined([combine |-> combine, mask |-> NoneArr])

\* _MaskCombiner.__init__(shape, combine): the new object, or the TypeError
\* raised before self.mask is ever set.
CombinerInit(shape, combine) ==
    IF combine = "or"
    THEN [exc |-> "none", self |-> [combine |-> combine, mask |-> Zeros(shape)]]
    ELSE IF combine = "and"
    THEN [exc |-> "none", self |-> [combine |-> combine, mask |-> Ones(shape)]]
    ELSE CombineIlldefined([combine |-> combine, mask |-> NoneArr])

\* _MaskCombiner.combine_mask(other_mask)
CombineMask(self, other_mask) ==
    IF self.combine = "or"
    THEN [exc |-> "none",
          self |-> [self EXCEPT !.mask = LogicalOr(self.mask, other_mask)]]
    ELSE IF self.combine = "and"
    THEN [exc |-> "none",
          self |-> [self EXCEPT !.mask = LogicalAnd(self.mask, other_mask)]]
    ELSE CombineIlldefined(self)

\* ------------------------------------------------------------- conditions
Ev(fn, arg) == [fn |-> fn, arg |-> arg]

RECURSIVE FoldAll(_, _, _)
\* The successive mask.combine_mask(...) calls of an apply_conditions body:
\* r is the combiner so far, masks the arrays folded in, in order; kind names
\* the comparison that built them.  An exception ends the fold.
FoldAll(r, masks, kind) ==
    IF masks = <<>> \/ r.exc # "none"
    THEN r
    ELSE LET c == CombineMask(r.self, Head(masks))
         IN FoldAll([exc |-> c.exc, self |-> c.self,
                     trace |-> r.trace \o <<Ev(kind, Head(masks)),
                                            Ev("combine_mask", Head(masks))>>],
                    Tail(masks), kind)

\* MaskFile.apply_conditions: the identity
MaskFileApply(self, mask_data_orig, mask_file) ==
    [exc |-> "none", mask |-> mask_data_orig,
     meta |-> [source |-> mask_file], trace |-> <<>>]

\* LabelledMaskFile.apply_conditions testing the exclusive labels with ==.
LabelledApplyExclEq(self, mask_data_orig, mask_file) ==
    LET c0 == CombinerInit(mask_data_orig.shape, self.combine)
        r0 == [exc |-> c0.exc, self |-> c0.self,
               trace |-> <<Ev("_MaskCombiner", NoneArr)>>]
        incl == IF self.ilabels # None
                THEN [k \in 1..Len(self.ilabels[1]) |->
                          CmpEq(mask_data_orig, self.ilabels[1][k])]
                ELSE <<>>
        excl == IF self.elabels # None
                THEN [k \in 1..Len(self.elabels[1]) |->
                          CmpEq(mask_data_orig, self.elabels[1][k])]
                ELSE <<>>
        r1 == FoldAll(r0, incl, "eq")
        r2 == FoldAll(r1, excl, "ne")
    IN [exc |-> r2.exc,
        mask |-> r2.self.mask,
        meta |-> [source |-> mask_file,
                  inclusive_labels |-> self.ilabels,
                  exclusive_lavels |-> self.elabels,
                  combined_with |-> self.combine],
        trace |-> r2.trace]

\* LabelledMaskFile.apply_conditions
LabelledApply(self, mask_data_orig, mask_file) ==
    LET c0 == CombinerInit(mask_data_orig.shape, self.combine)
        r0 == [exc |-> c0.exc, self |-> c0.self,
               trace |-> <<Ev("_MaskCombiner", NoneArr)>>]
        incl == IF self.ilabels # None
                THEN [k \in 1..Len(self.ilabels[1]) |->
                          CmpEq(mask_data_orig, self.ilabels[1][k])]
                ELSE <<>>
        excl == IF self.elabels # None
                THEN [k \in 1..Len(self.elabels[1]) |->
                          CmpNe(mask_data_orig, self.elabels[1][k])]
                ELSE <<>>
        r1 == FoldAll(r0, incl, "eq")
        r2 == FoldAll(r1, excl, "ne")
    IN [exc |-> r2.exc,
        mask |-> r2.self.mask,
        meta |-> [source |-> mask_file,
                  inclusive_labels |-> self.ilabels,
                  exclusive_lavels |-> self.elabels,
                  combined_with |-> self.combine],
        trace |-> r2.trace]

\* array <= v
CmpLe(a, v) ==
    [shape |-> a.shape, dtype |-> "bool", data |-> [i \in Idx(a) |-> a.data[i] <= v]]

\* ThresholdedMaskFile.apply_conditions with an inclusive upper bound.
ThresholdedApplyInclusive(self, mask_data_orig, mask_file) ==
    LET c0 == CombinerInit(mask_data_orig.shape, self.combine)
        r0 == [exc |-> c0.exc, self |-> c0.self,
               trace |-> <<Ev("_MaskCombiner", NoneArr)>>]
        upper == IF self.ub # None
                 THEN <<CmpLe(mask_data_orig, self.ub[1])>>
                 ELSE <<>>
        lower == IF self.lb # None
                 THEN <<CmpGt(mask_data_orig, self.lb[1])>>
                 ELSE <<>>
        r1 == FoldAll(r0, upper, "lt")
        r2 == FoldAll(r1, lower, "gt")
    IN [exc |-> r2.exc,
        mask |-> r2.self.mask,
        meta |-> [source |-> mask_file,
                  upper_bound |-> self.ub,
                  lower_bound |-> self.lb,
                  combined_with |-> self.combine],
        trace |-> r2.trace]

\* ThresholdedMaskFile.apply_conditions (ThresholdedScalarMask inherits it)
ThresholdedApply(self, mask_data_orig, mask_file) ==
    LET c0 == CombinerInit(mask_data_orig.shape, self.combine)
        r0 == [exc |-> c0.exc, self |-> c0.self,
               trace |-> <<Ev("_MaskCombiner", NoneArr)>>]
        upper == IF self.ub # None
                 THEN <<CmpLt(mask_data_orig, self.ub[1])>>
                 ELSE <<>>
        lower == IF self.lb # None
                 THEN <<CmpGt(mask_data_orig, self.lb[1])>>
                 ELSE <<>>
        r1 == FoldAll(r0, upper, "lt")
        r2 == FoldAll(r1, lower, "gt")
    IN [exc |-> r2.exc,
        mask |-> r2.self.mask,
        meta |-> [source |-> mask_file,
                  upper_bound |-> self.ub,
                  lower_bound |-> self.lb,
                  combined_with |-> self.combine],
        trace |-> r2.trace]

\* --------------------------------------------------------------- resample
DropLast(s) == SubSeq(s, 1, Len(s) - 1)

\* dwi_data[..., 0]: the first element along the last axis
Slice0(a) ==
    [shape |-> DropLast(a.shape), dtype |-> a.dtype,
     data |-> [i \in 1..Prod(DropLast(a.shape)) |->
                  a.data[(i - 1) * a.shape[Len(a.shape)] + 1]]]

\* mask_data.astype(float)
AsFloat(a) ==
    [shape |-> a.shape, dtype |-> "float64",
     data |-> [i \in Idx(a) |->
                  IF a.dtype = "bool" THEN (IF a.data[i] THEN 1 ELSE 0)
                  ELSE a.data[i]]]

\* reg.resample(moving, static, moving_affine, static_affine): the external
\* service.  Its answer lies on the grid of static and is continuous-valued:
\* an array in half units (dtype "halves"), read from world.reg, the answers
\* the service gives in this run.
RegResample(moving, static, moving_affine, static_affine) ==
    [shape |-> static.shape, dtype |-> "halves",
     data |-> [i \in 1..Prod(static.shape) |-> world.reg[i]]]

\* np.round of one value in half units: halves go to the even neighbour.
RoundHalf(h) ==
    LET k == h \div 2
    IN IF h % 2 = 0 THEN k ELSE IF k % 2 = 0 THEN k ELSE k + 1

\* np.round(a) of an array in half units: a float64 array of whole values
Round(a) ==
    [shape |-> a.shape, dtype |-> "float64",
     data |-> [i \in Idx(a) |-> RoundHalf(a.data[i])]]

\* a.astype(t) of a float64 array of whole values
AsType(a, t) ==
    [shape |-> a.shape, dtype |-> t,
     data |-> [i \in Idx(a) |-> IF t = "bool" THEN a.data[i] # 0 ELSE a.data[i]]]

\* _resample_mask comparing the whole shape of dwi_data, last axis included.
ResampleMaskWholeShape(mask_data, dwi_data, mask_affine, dwi_affine) ==
    LET mask_type == mask_data.dtype
    IN IF /\ ~IsNone(dwi_data)
          /\ dwi_affine # None
          /\ dwi_data.shape # mask_data.shape
       THEN [arr |-> AsType(Round(RegResample(AsFloat(mask_data), Slice0(dwi_data),
                                               mask_affine, dwi_affine)),
                            mask_type),
             trace |-> <<Ev("reg.resample", AsFloat(mask_data))>>]
       ELSE [arr |-> mask_data, trace |-> <<>>]

\* _resample_mask(mask_data, dwi_data, mask_affine, dwi_affine): the array
\* returned and the calls made to the resample service.
ResampleMask(mask_data, dwi_data, mask_affine, dwi_affine) ==
    LET mask_type == mask_data.dtype
    IN IF /\ ~IsNone(dwi_data)
          /\ dwi_affine # None
          /\ Slice0(dwi_data).shape # mask_data.shape
       THEN [arr |-> AsType(Round(RegResample(AsFloat(mask_data), Slice0(dwi_data),
                                               mask_affine, dwi_affine)),
                            mask_type),
             trace |-> <<Ev("reg.resample", AsFloat(mask_data))>>]
       ELSE [arr |-> mask_data, trace |-> <<>>]

\* ------------------------------------------------------------ mask objects
\* A mask object: its class (kind) and its attributes.  The attributes a
\* class does not set keep the placeholder given here and are never read.
NewMask(kind) ==
    [kind |-> kind, suffix |-> "", scope |-> None, combine |-> "",
     ilabels |-> None, elabels |-> None, lb |-> None, ub |-> None,
     scalar_name |-> "", fnames |-> <<>>, mask_list |-> <<>>]

\* MaskFile.__init__(suffix, scope): fnames starts as the empty dict
MaskFileNew(suffix, scope) ==
    [NewMask("MaskFile") EXCEPT !.suffix = suffix, !.scope = scope, !.fnames = <<>>]

\* FullMask has no __init__
FullMaskNew == NewMask("FullMask")

\* LabelledMaskFile.__init__
LabelledNew(suffix, scope, inclusive_labels, exclusive_labels, combine) ==
    [MaskFileNew(suffix, scope) EXCEPT !.kind = "LabelledMaskFile",
        !.combine = combine, !.ilabels = inclusive_labels,
        !.elabels = exclusive_labels]

\* ThresholdedMaskFile.__init__
ThresholdedNew(suffix, scope, lower_bound, upper_bound, combine) ==
    [MaskFileNew(suffix, scope) EXCEPT !.kind = "ThresholdedMaskFile",
        !.combine = combine, !.lb = lower_bound, !.ub = upper_bound]

\* ScalarMask.__init__(scalar): sets scalar_name only
ScalarNew(scalar) == [NewMask("ScalarMask") EXCEPT !.scalar_name = scalar]

\* ThresholdedScalarMask.__init__: sets scalar_name, combine, lb, ub only
ThresholdedScalarNew(scalar, lower_bound, upper_bound, combine) ==
    [NewMask("ThresholdedScalarMask") EXCEPT !.scalar_name = scalar,
        !.combine = combine, !.lb = lower_bound, !.ub = upper_bound]

\* CombinedMask.__init__(mask_list, combine)
CombinedNew(mask_list, combine) ==
    [NewMask("CombinedMask") EXCEPT !.mask_list = mask_list, !.combine = combine]

\* The classes whose find_path and get_path_data_affine are MaskFile's.
FileBacked == {"MaskFile", "LabelledMaskFile", "ThresholdedMaskFile"}

\* The classes whose find_path and get_path_data_affine are ScalarMask's.
ScalarBacked == {"ScalarMask", "ThresholdedScalarMask"}

\* The methods each class has, inherited ones included.
Methods(kind) ==
    IF kind \in FileBacked \cup ScalarBacked
    THEN {"find_path", "get_path_data_affine", "apply_conditions", "get_mask"}
    ELSE IF kind = "_MaskCombiner"
    THEN {"combine_mask", "combine_illdefined"}
    ELSE {"find_path", "get_mask"}

\* ------------------------------------------------------------- find_path
Subjects == {"a", "b"}

Sessions == {"s1", "s2"}

Suffixes == {"seg", "wm"}

FileName(suffix, subject, session, n) ==
    [suffix |-> suffix, subject |-> subject, session |-> session, n |-> n]

\* bids_layout.get(subject=..., session=..., suffix=..., scope=...,
\* return_type='filename'): the external dataset query.  A layout is the
\* list of numbered files it holds for each suffix.
BidsGet(bids_layout, subject, session, suffix, scope) ==
    [k \in 1..Len(bids_layout[suffix]) |->
        FileName(suffix, subject, session, bids_layout[suffix][k])]

\* MaskFile.find_path with the two keys of the cache exchanged.
MaskFileFindPathSwapped(self, bids_layout, subject, session) ==
    LET f1 == IF subject \notin DOMAIN self.fnames
              THEN (subject :> <<>>) @@ self.fnames
              ELSE self.fnames
        got == BidsGet(bids_layout, subject, session, self.suffix, self.scope)
    IN IF Len(got) = 0
       THEN [exc |-> "IndexError", self |-> [self EXCEPT !.fnames = f1]]
       ELSE [exc |-> "none",
             self |-> [self EXCEPT !.fnames =
                          [f1 EXCEPT ![subject] = (session :> got[1]) @@ f1[subject]]]]

\* MaskFile.find_path: the right-hand side is evaluated (and may raise
\* IndexError) after fnames[session] was created and before the store.
MaskFileFindPath(self, bids_layout, subject, session) ==
    LET f1 == IF session \notin DOMAIN self.fnames
              THEN (session :> <<>>) @@ self.fnames
              ELSE self.fnames
        got == BidsGet(bids_layout, subject, session, self.suffix, self.scope)
    IN IF Len(got) = 0
       THEN [exc |-> "IndexError", self |-> [self EXCEPT !.fnames = f1]]
       ELSE [exc |-> "none",
             self |-> [self EXCEPT !.fnames =
                          [f1 EXCEPT ![session] = (subject :> got[1]) @@ f1[session]]]]

RECURSIVE FindPath(_, _, _, _)
RECURSIVE FindPathAll(_, _, _, _, _)
\* CombinedMask.find_path: the children in order; the first exception ends it.
FindPathAll(mask_list, i, bids_layout, subject, session) ==
    IF i > Len(mask_list)
    THEN [exc |-> "none", list |-> mask_list]
    ELSE LET r == FindPath(mask_list[i], bids_layout, subject, session)
             l1 == [mask_list EXCEPT ![i] = r.self]
         IN IF r.exc # "none"
            THEN [exc |-> r.exc, list |-> l1]
            ELSE FindPathAll(l1, i + 1, bids_layout, subject, session)

\* mask.find_path(bids_layout, subject, session), by class
FindPath(self, bids_layout, subject, session) ==
    IF self.kind \in FileBacked
    THEN MaskFileFindPath(self, bids_layout, subject, session)
    ELSE IF self.kind = "CombinedMask"
    THEN LET r == FindPathAll(self.mask_list, 1, bids_layout, subject, session)
         IN [exc |-> r.exc, self |-> [self EXCEPT !.mask_list = r.list]]
    ELSE [exc |-> "none", self |-> self]

\* -------------------------------------------------------------- get_mask
NoMeta == [none |-> TRUE]

NoFile == FileName("", "", "", 0)

\* A call that raised: no mask and no metadata reach the caller.
Raise(exc, trace, self) ==
    [exc |-> exc, mask |-> NoneArr, meta |-> NoMeta, trace |-> trace, self |-> self]

\* nib.load(fname): the image held by the numbered file, its data
\* (get_fdata(), float64) and its affine.
NibLoad(fname) == [data |-> world.vol[fname.n], affine |-> Some(fname.n)]

\* MaskFile.get_path_data_affine that takes the session's entries out of the
\* cache as it reads them.
MaskFilePathDataAffinePop(self, afq, row) ==
    IF \/ row.ses \notin DOMAIN self.fnames
       \/ row.subject \notin DOMAIN self.fnames[row.ses]
    THEN [exc |-> "KeyError", file |-> NoFile, data |-> NoneArr, affine |-> None,
          self |-> self]
    ELSE LET mask_file == self.fnames[row.ses][row.subject]
             mask_img == NibLoad(mask_file)
         IN [exc |-> "none", file |-> mask_file, data |-> mask_img.data,
             affine |-> mask_img.affine,
             self |-> [self EXCEPT !.fnames[row.ses] = <<>>]]

\* MaskFile.get_path_data_affine: a missing key of fnames is a KeyError.
\* The field self is the object after the call (the method writes nothing).
MaskFilePathDataAffine(self, afq, row) ==
    IF \/ row.ses \notin DOMAIN self.fnames
       \/ row.subject \notin DOMAIN self.fnames[row.ses]
    THEN [exc |-> "KeyError", file |-> NoFile, data |-> NoneArr, affine |-> None,
          self |-> self]
    ELSE LET mask_file == self.fnames[row.ses][row.subject]
             mask_img == NibLoad(mask_file)
         IN [exc |-> "none", file |-> mask_file, data |-> mask_img.data,
             affine |-> mask_img.affine, self |-> self]

\* ScalarMask.get_path_data_affine: afq._scalar_dict maps a scalar's name to
\* the function giving its file for a row.
ScalarPathDataAffine(self, afq, row) ==
    IF self.scalar_name \notin DOMAIN afq.scalar_dict
    THEN [exc |-> "RuntimeError", file |-> NoFile, data |-> NoneArr, affine |-> None,
          self |-> self]
    ELSE LET scalar_fname == FileName(self.scalar_name, row.subject, row.ses,
                                      afq.scalar_dict[self.scalar_name])
             scalar_img == NibLoad(scalar_fname)
         IN [exc |-> "none", file |-> scalar_fname, data |-> scalar_img.data,
             affine |-> scalar_img.affine, self |-> self]

\* self.get_path_data_affine(afq, row), by class
GetPathDataAffine(self, afq, row) ==
    IF self.kind \in ScalarBacked
    THEN ScalarPathDataAffine(self, afq, row)
    ELSE MaskFilePathDataAffine(self, afq, row)

\* self.apply_conditions(mask_data_orig, mask_file), by class
ApplyConditions(self, mask_data_orig, mask_file) ==
    IF self.kind = "LabelledMaskFile"
    THEN LabelledApply(self, mask_data_orig, mask_file)
    ELSE IF self.kind \in {"ThresholdedMaskFile", "ThresholdedScalarMask"}
    THEN ThresholdedApply(self, mask_data_orig, mask_file)
    ELSE MaskFileApply(self, mask_data_orig, mask_file)

\* MaskFile.get_mask with the two steps exchanged: resample, then conditions.
MaskFileGetMaskResampleFirst(self, afq, row) ==
    LET dwi_data == afq.dwi
        t0 == <<Ev("_get_data_gtab", NoneArr), Ev("get_path_data_affine", NoneArr)>>
        pda == GetPathDataAffine(self, afq, row)
    IN IF pda.exc # "none"
       THEN Raise(pda.exc, t0, pda.self)
       ELSE LET rs == ResampleMask(pda.data, dwi_data, pda.affine, afq.dwi_affine)
                c == ApplyConditions(pda.self, rs.arr, pda.file)
                t1 == t0 \o <<Ev("_resample_mask", pda.data)>> \o rs.trace
                         \o <<Ev("apply_conditions", rs.arr)>> \o c.trace
            IN IF c.exc # "none"
               THEN Raise(c.exc, t1, pda.self)
               ELSE [exc |-> "none", mask |-> c.mask, meta |-> c.meta,
                     trace |-> t1, self |-> pda.self]

\* MaskFile.get_mask, which every file-backed and scalar-backed class uses.
\* afq._get_data_gtab(row) gives the reference volume afq.dwi and its image,
\* whose affine is afq.dwi_affine.
MaskFileGetMask(self, afq, row) ==
    LET dwi_data == afq.dwi
        t0 == <<Ev("_get_data_gtab", NoneArr), Ev("get_path_data_affine", NoneArr)>>
        pda == GetPathDataAffine(self, afq, row)
    IN IF pda.exc # "none"
       THEN Raise(pda.exc, t0, pda.self)
       ELSE LET c == ApplyConditions(pda.self, pda.data, pda.file)
                t1 == t0 \o <<Ev("apply_conditions", pda.data)>> \o c.trace
            IN IF c.exc # "none"
               THEN Raise(c.exc, t1, pda.self)
               ELSE LET rs == ResampleMask(c.mask, dwi_data, pda.affine,
                                           afq.dwi_affine)
                    IN [exc |-> "none", mask |-> rs.arr, meta |-> c.meta,
                        trace |-> t1 \o <<Ev("_resample_mask", c.mask)>> \o rs.trace,
                        self |-> pda.self]

\* FullMask.get_mask: np.ones(dwi_data.shape), float64, of the whole shape
FullMaskGetMask(self, afq, row) ==
    LET dwi_data == afq.dwi
    IN [exc |-> "none",
        mask |-> [shape |-> dwi_data.shape, dtype |-> "float64",
                  data |-> [i \in 1..Prod(dwi_data.shape) |-> 1]],
        meta |-> [source |-> "Entire Volume"],
        trace |-> <<Ev("_get_data_gtab", NoneArr)>>,
        self |-> self]

RECURSIVE GetMask(_, _, _)
RECURSIVE CombinedLoop(_, _, _, _, _, _, _)
\* The loop of CombinedMask.get_mask from child i on, and its return.  The
\* loop variable is named mask, as the variable meant to hold the combiner
\* is: "for mask in self.mask_list" rebinds mask to the child, so in the
\* body "mask is None" tests the child and mask.combine_mask is looked up on
\* the child.  A child is a mask object: it is not None and its class has no
\* combine_mask, which is an AttributeError.  After the loop, mask.mask is
\* an AttributeError unless mask is a combiner; with no child mask is None.
\* var is the value of the variable mask, list the children after their
\* calls.
CombinedLoop(self, afq, row, i, var, list, acc) ==
    IF i > Len(list)
    THEN IF var.kind = "_MaskCombiner"
         THEN [exc |-> "none", mask |-> var.mask,
               meta |-> [sources |-> acc.metas, combined_with |-> self.combine],
               trace |-> acc.trace,
               self |-> [self EXCEPT !.mask_list = list]]
         ELSE Raise("AttributeError", acc.trace, [self EXCEPT !.mask_list = list])
    ELSE LET mask == list[i]
             next == GetMask(mask, afq, row)
             list1 == [list EXCEPT ![i] = next.self]
             self1 == [self EXCEPT !.mask_list = list1]
             trace1 == acc.trace \o next.trace
             acc1 == [metas |-> Append(acc.metas, next.meta), trace |-> trace1]
         IN IF next.exc # "none"
            THEN Raise(next.exc, trace1, self1)
            ELSE IF mask.kind = "None"
            THEN LET c == CombinerInit(next.mask.shape, self.combine)
                 IN IF c.exc # "none"
                    THEN Raise(c.exc, trace1, self1)
                    ELSE CombinedLoop(self, afq, row, i + 1,
                                      [kind |-> "_MaskCombiner",
                                       combine |-> c.self.combine,
                                       mask |-> c.self.mask],
                                      list1, acc1)
            ELSE IF "combine_mask" \notin Methods(mask.kind)
            THEN Raise("AttributeError", trace1, self1)
            ELSE LET c == CombineMask(mask, next.mask)
                 IN IF c.exc # "none"
                    THEN Raise(c.exc, trace1, self1)
                    ELSE CombinedLoop(self, afq, row, i + 1,
                                      [kind |-> "_MaskCombiner",
                                       combine |-> c.self.combine,
                                       mask |-> c.self.mask],
                                      list1, acc1)

\* CombinedMask.get_mask: mask = None, metas = [], then the loop
CombinedGetMask(self, afq, row) ==
    CombinedLoop(self, afq, row, 1, [kind |-> "None"], self.mask_list,
                 [metas |-> <<>>, trace |-> <<>>])

\* mask.get_mask(afq, row), by class: the outcome, the mask and metadata
\* returned, the calls made, and the object after the call.
GetMask(self, afq, row) ==
    IF self.kind = "CombinedMask"
    THEN CombinedGetMask(self, afq, row)
    ELSE IF self.kind = "FullMask"
    THEN FullMaskGetMask(self, afq, row)
    ELSE MaskFileGetMask(self, afq, row)

\* ----------------------------------------------------- the mask lifecycle
\* The masks a pipeline is configured with.
Leaves ==
    {MaskFileNew("seg", None), FullMaskNew, ScalarNew("dti_fa"), ScalarNew("bogus")}
    \cup {LabelledNew("seg", None, Some(<<1, 2>>), None, t) : t \in Tags}
    \cup {ThresholdedNew("wm", None, Some(0), Some(3), t) : t \in Tags}
    \cup {ThresholdedScalarNew("dti_fa", Some(1), None, t) : t \in Tags}

ChildLists ==
    {<<>>,
     <<ThresholdedScalarNew("dti_fa", Some(1), None, "and"),
       ThresholdedScalarNew("dti_md", None, Some(2), "and")>>,
     <<MaskFileNew("seg", None), ScalarNew("dti_md")>>,
     <<CombinedNew(<<FullMaskNew>>, "or")>>}

MaskConfigs == Leaves \cup {CombinedNew(l, t) : l \in ChildLists, t \in Tags}

Rows == [ses : Sessions, subject : Subjects]

\* A reference volume with two directions on the spatial grid s.
Dwi(s) ==
    [shape |-> s \o <<2>>, dtype |-> "float64",
     data |-> [i \in 1..(2 * Prod(s)) |-> 0]]

\* The spatial grids of the reference volumes of a run.
RefShapes == {<<n>> : n \in 1..MaxDim} \cup {<<1, MaxDim>>}

\* The diffusion context: the reference volume of the row, its affine, and
\* the scalars it can compute (name -> numbered file).
Afqs ==
    {[dwi |-> Dwi(s), dwi_affine |-> Some(0),
      scalar_dict |-> ("dti_fa" :> 1) @@ ("dti_md" :> 2)] : s \in RefShapes}

NoAfq == [dwi |-> NoneArr, dwi_affine |-> None, scalar_dict |-> <<>>]

\* A layout holds no file, or files 1 and 2, of every suffix.
Layouts == {[s \in Suffixes |-> l] : l \in {<<>>, <<1, 2>>}}

\* The source volume of shape s held by file n.
Ramp(s, n) ==
    [shape |-> s, dtype |-> "float64",
     data |-> [i \in 1..Prod(s) |-> (i + n) % (MaxVal + 1)]]

\* The files and the resample service of a run.
LifeWorlds ==
    {[vol |-> [n \in 1..2 |-> Ramp(s, n)],
      reg |-> [i \in 1..MaxDim |-> (i + 1) % (MaxHalf + 1)]] :
        s \in {<<1>>, <<MaxDim>>}}

NoOut ==
    [op |-> "none", exc |-> "none", mask |-> NoneArr, meta |-> NoMeta,
     trace |-> <<>>, row |-> [ses |-> "", subject |-> ""], afq |-> NoAfq]

NoInp == [fn |-> "none"]

NoWorld == [vol |-> <<>>, reg |-> <<>>]

Init ==
    /\ obj \in MaskConfigs
    /\ world \in LifeWorlds
    /\ found = {}
    /\ out = NoOut
    /\ comb = NoComb
    /\ folded = <<>>
    /\ inp = NoInp

\* The pipeline calls obj.find_path(bids_layout, subject, session).
FindPathStep ==
    \E bids_layout \in Layouts, subject \in Subjects, session \in Sessions :
        LET r == FindPath(obj, bids_layout, subject, session)
        IN /\ obj' = r.self
           /\ found' = IF r.exc = "none"
                       THEN found \cup {<<session, subject>>}
                       ELSE found
           /\ out' = [NoOut EXCEPT !.op = "find_path", !.exc = r.exc,
                         !.row = [ses |-> session, subject |-> subject]]
           /\ UNCHANGED <<comb, folded, inp, world>>

\* The pipeline calls obj.get_mask(afq, row).
GetMaskStep ==
    \E afq \in Afqs, row \in Rows :
        LET r == GetMask(obj, afq, row)
        IN /\ obj' = r.self
           /\ out' = [op |-> "get_mask", exc |-> r.exc, mask |-> r.mask,
                      meta |-> r.meta, trace |-> r.trace, row |-> row, afq |-> afq]
           /\ UNCHANGED <<found, comb, folded, inp, world>>

Next == FindPathStep \/ GetMaskStep

Spec == Init /\ [][Next]_vars

\* ------------------------------------------------- claims on the lifecycle
LookupErrors == {"KeyError", "IndexError"}

OutPair == <<out.row.ses, out.row.subject>>

\* C3: get_mask of a file-backed mask for a (session, subject) raises a
\* lookup error, and returns no mask and no metadata, whenever no find_path
\* for that pair has completed before it; once one has, it raises no lookup
\* error.
C3_LookupDiscipline ==
    (out.op = "get_mask" /\ obj.kind \in FileBacked) =>
        /\ (OutPair \notin found) =>
              (out.exc \in LookupErrors /\ IsNone(out.mask) /\ out.meta = NoMeta)
        /\ (OutPair \in found) => (out.exc \notin LookupErrors)

\* A get_mask that raised KeyError for a pair whose session the cache knows
\* (a find_path for it failed, or served another subject).
C3_Witness ==
    /\ out.op = "get_mask"
    /\ obj.kind \in FileBacked
    /\ out.exc = "KeyError"
    /\ out.row.ses \in DOMAIN obj.fnames
    /\ found # {}

\* C8: get_mask leaves the mask object (path cache, options, children) as it
\* was, so only find_path writes the cache; and a get_mask that follows a
\* get_mask for the same row and reference volume ends the same way with the
\* same mask and metadata.
C8_GetMaskFrame ==
    [][(out'.op = "get_mask") =>
          /\ obj' = obj
          /\ (out.op = "get_mask" /\ out'.row = out.row /\ out'.afq = out.afq) =>
                (out'.exc = out.exc /\ out'.mask = out.mask /\ out'.meta = out.meta)
      ]_vars

\* A get_mask that returned a mask read through a path which find_path cached.
C8_Witness ==
    /\ out.op = "get_mask"
    /\ out.exc = "none"
    /\ obj.kind \in FileBacked
    /\ OutPair \in found

Pos(t, fn) == {k \in 1..Len(t) : t[k].fn = fn}

CondEvents == {"_MaskCombiner", "eq", "ne", "lt", "gt", "combine_mask"}

ResampleOnceAfterConditions(t) ==
    /\ Cardinality(Pos(t, "apply_conditions")) = 1
    /\ Cardinality(Pos(t, "_resample_mask")) = 1
    /\ \A a \in Pos(t, "apply_conditions"), r \in Pos(t, "_resample_mask") :
          /\ a < r
          /\ \A k \in 1..Len(t) :
                /\ t[k].fn \in CondEvents => (a < k /\ k < r)
                /\ t[k].fn = "reg.resample" => r < k
          /\ t[a].arg \in {world.vol[n] : n \in DOMAIN world.vol}
          /\ t[r].arg.shape = t[a].arg.shape
          /\ obj.kind \notin {"MaskFile", "ScalarMask"} => t[r].arg.dtype = "bool"
          /\ obj.kind \in {"MaskFile", "ScalarMask"} => t[r].arg = t[a].arg

\* C9 as stated: every get_mask call that returns, of every variant, invokes
\* the resampling step exactly once, after its condition step.
C9_Original ==
    (out.op = "get_mask" /\ out.exc = "none") => ResampleOnceAfterConditions(out.trace)

\* C9 as amended: every get_mask call that returns, of a file-backed or
\* scalar-backed mask, invokes the resampling step exactly once, after the
\* condition step: the condition step receives the raw source array in its
\* native shape and the resampler the condition result.  FullMask.get_mask
\* invokes neither step.
C9_ResampleOnceAfterConditions ==
    (out.op = "get_mask" /\ out.exc = "none") =>
        /\ obj.kind \in FileBacked \cup ScalarBacked =>
              ResampleOnceAfterConditions(out.trace)
        /\ obj.kind = "FullMask" =>
              /\ Pos(out.trace, "_resample_mask") = {}
              /\ Pos(out.trace, "apply_conditions") = {}

\* A labelled mask's get_mask that returned after the resample service ran.
C9_Witness ==
    /\ out.op = "get_mask"
    /\ out.exc = "none"
    /\ obj.kind = "LabelledMaskFile"
    /\ Pos(out.trace, "reg.resample") # {}

\* What each child's get_mask gives when called on its own.
Alone == [k \in 1..Len(obj.mask_list) |-> GetMask(obj.mask_list[k], out.afq, out.row)]

ChildrenAgree ==
    \A k \in 1..Len(obj.mask_list) :
        Alone[k].exc = "none" /\ Alone[k].mask.shape = Alone[1].mask.shape

\* C1: for a non-empty list of children whose outputs have one shape and an
\* operator in {"and", "or"}, CombinedMask.get_mask returns the elementwise
\* AND (OR) of every child's own output, the first included, and metadata
\* whose sources are the children's metadata in child order.
C1_CombinedFold ==
    (/\ out.op = "get_mask"
     /\ obj.kind = "CombinedMask"
     /\ Len(obj.mask_list) > 0
     /\ obj.combine \in {"and", "or"}
     /\ ChildrenAgree) =>
        /\ out.exc = "none"
        /\ out.mask.shape = Alone[1].mask.shape
        /\ \A i \in 1..Prod(out.mask.shape) :
              Truth(out.mask, i) =
                 IF obj.combine = "and"
                 THEN \A k \in 1..Len(obj.mask_list) : Truth(Alone[k].mask, i)
                 ELSE \E k \in 1..Len(obj.mask_list) : Truth(Alone[k].mask, i)
        /\ out.meta.sources = [k \in 1..Len(obj.mask_list) |-> Alone[k].meta]

\* C2: get_mask of a CombinedMask with no child raises the configuration
\* error an invalid operator raises (TypeError).
C2_EmptyListConfigError ==
    (out.op = "get_mask" /\ obj.kind = "CombinedMask" /\ Len(obj.mask_list) = 0) =>
        out.exc = "TypeError"

ArrayEvents == {"eq", "ne", "lt", "gt", "combine_mask", "_resample_mask", "reg.resample"}

\* C4 (the get_mask part): get_mask of a combiner-based mask built with a tag
\* outside {"and", "or"} ends in the combiner's configuration error
\* (TypeError), raised before any array computation.  The mask's sources are
\* in order: its path is cached, its children succeed on their own.
C4_InvalidTagGetMask ==
    (/\ out.op = "get_mask"
     /\ obj.combine \notin {"and", "or"}
     /\ \/ obj.kind \in {"LabelledMaskFile", "ThresholdedMaskFile"} /\ OutPair \in found
        \/ obj.kind = "ThresholdedScalarMask"
        \/ obj.kind = "CombinedMask" /\ Len(obj.mask_list) > 0 /\ ChildrenAgree) =>
        /\ out.exc = "TypeError"
        /\ obj.kind # "CombinedMask" =>
              \A k \in 1..Len(out.trace) : out.trace[k].fn \notin ArrayEvents

\* ------------------------------------------------ a combiner on its own
\* A caller builds a _MaskCombiner (inp keeps the arguments), folds arrays of
\* its shape into it (folded keeps each array and the tag in force), and may
\* assign another tag to its attribute combine.
InitCombiner ==
    /\ obj = FullMaskNew
    /\ world = NoWorld
    /\ found = {}
    /\ out = NoOut
    /\ comb = NoComb
    /\ folded = <<>>
    /\ inp = NoInp

\* mask = _MaskCombiner(shape, combine); a constructor that raises gives the
\* caller no object.
CombinerNewStep ==
    /\ comb = NoComb
    /\ \E shape \in Shapes, combine \in Tags :
          LET r == CombinerInit(shape, combine)
          IN /\ comb' = IF r.exc = "none" THEN r.self ELSE NoComb
             /\ inp' = [fn |-> "_MaskCombiner", shape |-> shape, combine |-> combine]
             /\ out' = [NoOut EXCEPT !.op = "_MaskCombiner", !.exc = r.exc]
    /\ folded' = <<>>
    /\ UNCHANGED <<obj, found, world>>

\* mask.combine_mask(other_mask)
CombineMaskStep ==
    /\ comb # NoComb
    /\ Len(folded) < MaxFolds
    /\ \E other_mask \in BoolArrays(comb.mask.shape) :
          LET r == CombineMask(comb, other_mask)
          IN /\ comb' = r.self
             /\ folded' = IF r.exc = "none"
                          THEN Append(folded, [tag |-> comb.combine, arr |-> other_mask])
                          ELSE folded
             /\ out' = [NoOut EXCEPT !.op = "combine_mask", !.exc = r.exc,
                           !.mask = comb.mask]
    /\ UNCHANGED <<obj, found, inp, world>>

\* mask.combine = tag: the attribute is a plain one
SetCombineStep ==
    /\ comb # NoComb
    /\ \E tag \in Tags : comb' = [comb EXCEPT !.combine = tag]
    /\ out' = [NoOut EXCEPT !.op = "set_combine"]
    /\ UNCHANGED <<obj, found, folded, inp, world>>

NextCombiner == CombinerNewStep \/ CombineMaskStep \/ SetCombineStep

SpecCombiner == InitCombiner /\ [][NextCombiner]_vars

\* The combiner was built with tag t and every fold ran under t.
Pure(t) == inp.combine = t /\ \A k \in 1..Len(folded) : folded[k].tag = t

\* C10: a combiner built with "or" over shape S holds the elementwise OR of
\* the arrays folded into it, one built with "and" their elementwise AND;
\* with no fold that is all-false, resp. all-true; and folding an all-false
\* array under "or", or an all-true one under "and", leaves the mask as it
\* was.
C10_CombinerAlgebra ==
    comb # NoComb =>
        /\ comb.mask.shape = inp.shape /\ comb.mask.dtype = "bool"
        /\ Pure("or") =>
              \A i \in 1..Prod(inp.shape) :
                  comb.mask.data[i] = (\E k \in 1..Len(folded) : folded[k].arr.data[i])
        /\ Pure("and") =>
              \A i \in 1..Prod(inp.shape) :
                  comb.mask.data[i] = (\A k \in 1..Len(folded) : folded[k].arr.data[i])
        /\ Len(folded) = 0 =>
              comb.mask = (IF inp.combine = "or" THEN Zeros(inp.shape) ELSE Ones(inp.shape))
        /\ (/\ out.op = "combine_mask"
            /\ out.exc = "none"
            /\ folded[Len(folded)].arr =
                  (IF folded[Len(folded)].tag = "or"
                   THEN Zeros(inp.shape) ELSE Ones(inp.shape))) =>
              comb.mask = out.mask

\* An "or" combiner of two or more voxels after MaxFolds folds that left some
\* voxel true and some voxel false.
C10_Witness ==
    /\ comb # NoComb
    /\ Pure("or")
    /\ Len(folded) = MaxFolds
    /\ \E i, j \in 1..Prod(inp.shape) : comb.mask.data[i] /\ ~comb.mask.data[j]

\* C4 (the combiner part): a fold under a tag outside {"and", "or"} raises
\* TypeError and leaves the running mask as it was; a constructor given such
\* a tag raises it and yields no combiner.
C4_CombinerRejectsTag ==
    /\ (out.op = "combine_mask" /\ comb.combine \notin {"and", "or"}) =>
          (out.exc = "TypeError" /\ comb.mask = out.mask)
    /\ (out.op = "_MaskCombiner" /\ inp.combine \notin {"and", "or"}) =>
          (out.exc = "TypeError" /\ comb = NoComb)

\* --------------------------------------------- apply_conditions on its own
\* Source volumes that hold every value 0..MaxVal, in each rotation, as one
\* axis and as two.
FullRangeArrays ==
    {Ramp(s, n) : s \in {<<MaxVal + 1>>, <<1, MaxVal + 1>>}, n \in 0..MaxVal}

\* Labels: every value of the volumes and one they do not hold.
Labels == 0..(MaxVal + 1)

SeqsUpTo(S, n) == UNION {[1..k -> S] : k \in 0..n}

\* inclusive_labels and exclusive_labels: None or a list, MaxFolds labels in all
LabelLists ==
    {p \in ({None} \cup {Some(l) : l \in SeqsUpTo(Labels, MaxFolds)})
         \X ({None} \cup {Some(l) : l \in SeqsUpTo(Labels, MaxFolds)}) :
        (IF p[1] = None THEN 0 ELSE Len(p[1][1]))
          + (IF p[2] = None THEN 0 ELSE Len(p[2][1])) <= MaxFolds}

\* lower_bound and upper_bound: None or a number
BoundOpts == {None} \cup {Some(b) : b \in Labels}

CondMasks ==
    {LabelledNew("seg", None, p[1], p[2], t) : p \in LabelLists, t \in Tags}
    \cup {ThresholdedNew("seg", None, lb, ub, t) :
             lb \in BoundOpts, ub \in BoundOpts, t \in Tags}
    \cup {ThresholdedScalarNew("dti_fa", lb, ub, t) :
             lb \in BoundOpts, ub \in BoundOpts, t \in Tags}

InitCond ==
    /\ obj \in CondMasks
    /\ inp \in {[fn |-> "apply_conditions", data |-> a] : a \in FullRangeArrays}
    /\ world = NoWorld
    /\ found = {}
    /\ out = NoOut
    /\ comb = NoComb
    /\ folded = <<>>

\* obj.apply_conditions(data, mask_file), resolved by obj's class
ApplyConditionsStep ==
    /\ out.op = "none"
    /\ LET r == ApplyConditions(obj, inp.data, FileName("seg", "a", "s1", 1))
       IN out' = [NoOut EXCEPT !.op = "apply_conditions", !.exc = r.exc,
                     !.mask = r.mask, !.meta = r.meta, !.trace = r.trace]
    /\ UNCHANGED <<obj, found, comb, folded, inp, world>>

NextCond == ApplyConditionsStep

SpecCond == InitCond /\ [][NextCond]_vars

ListOf(opt) == IF opt = None THEN <<>> ELSE opt[1]

Thresholded == {"ThresholdedMaskFile", "ThresholdedScalarMask"}

\* C6: the apply_conditions of ThresholdedMaskFile and of
\* ThresholdedScalarMask under "and" is true exactly where
\* lower < v < upper, both strict; a bound that is None contributes nothing,
\* so no bound at all gives the operator's identity.  Under "or" it is true
\* where v < upper or v > lower.
C6_ThresholdConditions ==
    (/\ out.op = "apply_conditions"
     /\ obj.kind \in Thresholded
     /\ obj.combine \in {"and", "or"}) =>
        LET v(i) == inp.data.data[i]
        IN /\ out.exc = "none"
           /\ out.mask.shape = inp.data.shape /\ out.mask.dtype = "bool"
           /\ \A i \in 1..Prod(inp.data.shape) :
                 out.mask.data[i] =
                    IF obj.combine = "and"
                    THEN /\ obj.lb # None => obj.lb[1] < v(i)
                         /\ obj.ub # None => v(i) < obj.ub[1]
                    ELSE \/ obj.lb # None /\ obj.lb[1] < v(i)
                         \/ obj.ub # None /\ v(i) < obj.ub[1]

\* The default "and" with both bounds, on a volume that holds both bounds and
\* a value strictly between them.
C6_Witness ==
    /\ out.op = "apply_conditions"
    /\ obj.kind = "ThresholdedScalarMask"
    /\ obj.combine = "and"
    /\ obj.lb = Some(0)
    /\ obj.ub = Some(2)
    /\ \E i, j, k \in 1..Prod(inp.data.shape) :
          /\ inp.data.data[i] = 0 /\ ~out.mask.data[i]
          /\ inp.data.data[j] = 2 /\ ~out.mask.data[j]
          /\ inp.data.data[k] = 1 /\ out.mask.data[k]

\* ---------------------------------------------- _resample_mask on its own
\* Mask volumes of every shape and dtype.
ResampleMasks ==
    UNION {{[Ramp(s, n) EXCEPT !.dtype = t] : t \in {"int64", "float64"}, n \in 0..1}
           \cup {CmpGt(Ramp(s, n), 1) : n \in 0..1} : s \in Shapes}

\* Reference volumes: none, or one with two directions on each spatial shape.
ResampleRefs == {NoneArr} \cup {Dwi(s) : s \in Shapes}

InitResample ==
    /\ inp \in {[fn |-> "_resample_mask", mask_data |-> m, dwi_data |-> d,
                 mask_affine |-> Some(1), dwi_affine |-> a] :
                   m \in ResampleMasks, d \in ResampleRefs, a \in {None, Some(0)}}
    /\ world \in {[vol |-> <<>>, reg |-> r] : r \in [1..MaxDim -> 0..MaxHalf]}
    /\ obj = FullMaskNew
    /\ found = {}
    /\ out = NoOut
    /\ comb = NoComb
    /\ folded = <<>>

\* _resample_mask(mask_data, dwi_data, mask_affine, dwi_affine)
ResampleStep ==
    /\ LET r == ResampleMask(inp.mask_data, inp.dwi_data, inp.mask_affine,
                             inp.dwi_affine)
       IN out' = [NoOut EXCEPT !.op = "_resample_mask", !.mask = r.arr,
                     !.trace = r.trace]
    /\ UNCHANGED <<obj, found, comb, folded, inp, world>>

NextResample == ResampleStep

SpecResample == InitResample /\ [][NextResample]_vars

\* The reference volume and its affine are given and the reference's shape
\* without its last axis is not the mask's.
MustResample ==
    /\ ~IsNone(inp.dwi_data)
    /\ inp.dwi_affine # None
    /\ SubSeq(inp.dwi_data.shape, 1, Len(inp.dwi_data.shape) - 1) # inp.mask_data.shape

\* C7: _resample_mask calls the resample service exactly when MustResample;
\* the result then lies on the reference grid, has the mask's dtype and holds
\* the service's values rounded (to a nearest whole value) and cast; else
\* the service is not called and the mask comes back as it was.
C7_ResampleOnMismatch ==
    out.op = "_resample_mask" =>
        /\ Len(out.trace) = (IF MustResample THEN 1 ELSE 0)
        /\ MustResample =>
              /\ out.mask.dtype = inp.mask_data.dtype
              /\ out.mask.shape =
                    SubSeq(inp.dwi_data.shape, 1, Len(inp.dwi_data.shape) - 1)
              /\ \A i \in 1..Prod(out.mask.shape) :
                    IF inp.mask_data.dtype = "bool"
                    THEN out.mask.data[i] = (world.reg[i] > 1)
                    ELSE /\ 2 * out.mask.data[i] - world.reg[i] \in -1..1
                         /\ (world.reg[i] % 2 = 1) => (out.mask.data[i] % 2 = 0)
        /\ ~MustResample => out.mask = inp.mask_data

\* An integer-labelled mask resampled onto a grid of another shape, where the
\* service answered a value that is not whole.
C7_Witness ==
    /\ out.op = "_resample_mask"
    /\ MustResample
    /\ inp.mask_data.dtype = "int64"
    /\ Len(out.trace) = 1
    /\ \E i \in 1..Prod(out.mask.shape) : world.reg[i] % 2 = 1

====
